---- MODULE Spec2Model ----
(***************************************************************************)
(* A model of easybuild/tools/multidiff.py: the MultiDiff class            *)
(* (parse_line, merge_squigly, colorize, get_line, __str__ and its inner   *)
(* limit) and the multidiff() driver that scans difflib's tagged-line      *)
(* stream for every candidate file.                                        *)
(*                                                                         *)
(* A Python string is a tuple of one-character strings; the token "ESC"    *)
(* stands for the single character \033 and "\n" for a newline.            *)
(***************************************************************************)
EXTENDS Integers, Sequences, FiniteSets, TLC

VARIABLES
    base_lines,     \* self.base_lines
    files,          \* self.files (paths)
    colored,        \* self.colored
    diff_info,      \* self.diff_info: line_no -> key -> list of (diff_line, meta, squigly_line)
    pc,             \* position of the driver
    fileIdx,        \* index (1-based) of the candidate the loop of multidiff() is at
    i,              \* enumerate() index into the comparator stream
    compensator,    \* multidiff(): compensator
    local_diff,     \* multidiff(): local_diff
    squigly_dict,   \* multidiff(): squigly_dict
    last_added,     \* multidiff(): last_added
    consumed,       \* number of base lines the comparator has emitted so far
    stream,         \* the comparator's output for the current candidate, so far
    got,            \* __str__: the value of self.get_line(i), per base index i
    output,         \* __str__: the list "output"
    raised,         \* the exception that ended the run, or "none"
    sq1, sq2, sq3,  \* arguments of merge_squigly
    merged,         \* results of merge_squigly
    text, length,   \* arguments of limit
    limited         \* result of limit

mdVars == <<base_lines, files, colored, diff_info, pc, fileIdx, i, compensator,
            local_diff, squigly_dict, last_added, consumed, stream, got, output, raised>>
mergeVars == <<sq1, sq2, sq3, merged>>
limitVars == <<text, length, limited>>
vars == <<mdVars, mergeVars, limitVars>>

----------------------------------------------------------------------------
(* Bounds of the model *)

\* longest base document, in lines
MaxBase == 2
\* longest comparator stream of one candidate, in tagged lines
MaxStream == 4
\* longest emphasis mask handed to merge_squigly
MaxMaskLen == 2
\* longest text handed to limit
MaxTextLen == 5
\* widest terminal handed to limit
MaxWidth == 6

----------------------------------------------------------------------------
(* Program constants *)

SEP_WIDTH == 5
PURPLE == <<"ESC", "[", "0", ";", "3", "5", "m">>
GREEN_BACK == <<"ESC", "[", "0", ";", "4", "2", "m">>
RED_BACK == <<"ESC", "[", "0", ";", "4", "1", "m">>
END_COLOR == <<"ESC", "[", "0", "m">>
HAT == "^"
MINUS == "-"
PLUS == "+"
SPACE == " "
END_LONG_LINE == <<".", ".", ".">>

\* Python's None, comparable with every string of the model and equal to none
None == <<"None">>
\* the empty string ''
Empty == <<>>

----------------------------------------------------------------------------
(* Python built-ins on strings and lists *)

Min(a, b) == IF a < b THEN a ELSE b
Max(a, b) == IF a > b THEN a ELSE b

\* s[:n], for any integer n (a negative n counts from the end)
Prefix(s, n) ==
    IF n >= 0 THEN SubSeq(s, 1, Min(n, Len(s)))
    ELSE SubSeq(s, 1, Max(Len(s) + n, 0))

Whitespace == {" ", "\n", "\t"}

RECURSIVE Rstrip(_)
\* s.rstrip()
Rstrip(s) ==
    IF s # <<>> /\ s[Len(s)] \in Whitespace THEN Rstrip(SubSeq(s, 1, Len(s) - 1)) ELSE s

\* s.startswith(c), c one character
StartsWith(s, c) == Len(s) >= 1 /\ s[1] = c

\* l.insert(idx, x), idx >= 0
Insert(l, idx, x) ==
    LET k == Min(idx, Len(l)) IN SubSeq(l, 1, k) \o <<x>> \o SubSeq(l, k + 1, Len(l))

RECURSIVE Join(_, _)
\* sep.join(l)
Join(l, sep) ==
    IF l = <<>> THEN <<>>
    ELSE IF Len(l) = 1 THEN l[1]
    ELSE l[1] \o sep \o Join(Tail(l), sep)

\* l[::-1]
Reverse(l) == [k \in 1..Len(l) |-> l[Len(l) + 1 - k]]

Digit(d) == CASE d = 0 -> "0" [] d = 1 -> "1" [] d = 2 -> "2" [] d = 3 -> "3" [] d = 4 -> "4"
              [] d = 5 -> "5" [] d = 6 -> "6" [] d = 7 -> "7" [] d = 8 -> "8" [] d = 9 -> "9"

RECURSIVE IntToStr(_)
\* str(n) and "%d" % n, n >= 0
IntToStr(n) == IF n < 10 THEN <<Digit(n)>> ELSE IntToStr(n \div 10) \o <<Digit(n % 10)>>

\* c * n, c one character
Repeat(c, n) == [k \in 1..n |-> c]

RECURSIVE Basename(_)
\* os.path.basename(path)
Basename(path) ==
    IF \E k \in 1..Len(path) : path[k] = "/"
    THEN Basename(SubSeq(path, 2, Len(path)))
    ELSE path

----------------------------------------------------------------------------
(* MultiDiff.merge_squigly *)

RECURSIVE MergeFrom(_, _, _)
\* the loop "for i, o in enumerate(other)", from 1-based index k on
MergeFrom(base, other, k) ==
    IF k > Len(other) THEN base
    ELSE IF base[k] \in {HAT, SPACE} /\ base[k] # other[k]
         THEN MergeFrom([base EXCEPT ![k] = other[k]], other, k + 1)
         ELSE MergeFrom(base, other, k + 1)

RECURSIVE MergeFromGuarded(_, _, _)
\* a variant of the loop that overwrites only with a HAT or a SPACE
MergeFromGuarded(base, other, k) ==
    IF k > Len(other) THEN base
    ELSE IF base[k] \in {HAT, SPACE} /\ other[k] \in {HAT, SPACE} /\ base[k] # other[k]
         THEN MergeFromGuarded([base EXCEPT ![k] = other[k]], other, k + 1)
         ELSE MergeFromGuarded(base, other, k + 1)

\* merge_squigly with the guarded loop
merge_squigly_guarded(squigly1, squigly2) ==
    IF Len(squigly1) > Len(squigly2)
    THEN MergeFromGuarded(squigly1, squigly2, 1)
    ELSE MergeFromGuarded(squigly2, squigly1, 1)

merge_squigly(squigly1, squigly2) ==
    IF Len(squigly1) > Len(squigly2)
    THEN MergeFrom(squigly1, squigly2, 1)
    ELSE MergeFrom(squigly2, squigly1, 1)

----------------------------------------------------------------------------
(* MultiDiff.__str__: limit *)

limit(colour, txt, len) ==
    IF Len(txt) > len
    THEN LET maxlen == len - Len(END_LONG_LINE)
             res == Prefix(txt, maxlen)
         IN (IF colour THEN res \o END_COLOR ELSE res) \o END_LONG_LINE
    ELSE txt

----------------------------------------------------------------------------
(* Python dicts *)

EmptyDict == [k \in {} |-> 0]
DictGet(d, k, default) == IF k \in DOMAIN d THEN d[k] ELSE default
DictSet(d, k, v) == [x \in DOMAIN d \cup {k} |-> IF x = k THEN v ELSE d[x]]

----------------------------------------------------------------------------
(* Inputs *)

\* the path of the base document (self.base)
BasePath == <<"d", "/", "b">>
\* the candidate paths handed to multidiff()
FilePaths == << <<"d", "/", "A">>, <<"B">> >>
\* the line texts the documents are made of
Texts == {<<"x">>, <<"y", " ">>}
\* the tags difflib puts in a guide line, trailing blanks already stripped
GuideTags == {<<"^">>}
\* the terminal widths det_terminal_size() may report
TermWidths == {12}

\* difflib.Differ: the lines of its output
CommonLine(t) == <<" ", " ">> \o t
MinusLine(t) == <<"-", " ">> \o t
PlusLine(t) == <<"+", " ">> \o t
GuideLine(tags) == <<"?", " ">> \o tags \o <<"\n">>

----------------------------------------------------------------------------
(* MultiDiff.parse_line *)

\* "key in [MINUS, PLUS]": whether parse_line accepts the line
ValidKey(diff_line) == diff_line[1] \in {MINUS, PLUS}

\* the two setdefault calls and the append, on a Change Index "info"
Register(info, line_no, diff_line, meta, squigly_line) ==
    LET key == diff_line[1]
        line_dict == DictGet(info, line_no, EmptyDict)
        line_key_tuples == DictGet(line_dict, key, <<>>)
    IN DictSet(info, line_no,
               DictSet(line_dict, key,
                       Append(line_key_tuples, <<Rstrip(diff_line), meta, squigly_line>>)))

----------------------------------------------------------------------------
(* multidiff *)

filename == Basename(files[fileIdx])

RECURSIVE StoreLines(_, _, _, _)
\* "for (line, filename) in local_diff[line_no]", from 1-based index k on
StoreLines(info, line_no, pairs, k) ==
    IF k > Len(pairs) THEN info
    ELSE StoreLines(Register(info, line_no, pairs[k][1], pairs[k][2],
                             Rstrip(DictGet(squigly_dict, pairs[k][1], Empty))),
                    line_no, pairs, k + 1)

RECURSIVE StoreAll(_, _)
\* "for line_no in local_diff", over the line numbers "nos" still to do
StoreAll(info, nos) ==
    IF nos = {} THEN info
    ELSE LET line_no == CHOOSE n \in nos : TRUE
         IN StoreAll(StoreLines(info, line_no, local_diff[line_no], 1), nos \ {line_no})

\* difflib has room for one more line that consumes no base line
RoomForExtra == Len(stream) + (Len(base_lines) - consumed) < MaxStream

\* the tag of the line difflib emitted k lines ago (k = 0: the last one)
TagBack(k) == IF Len(stream) > k THEN stream[Len(stream) - k][1] ELSE "none"

\* difflib has emitted "- old" and its guide: "+ new" is what comes next
AwaitsPlus == TagBack(0) = "?" /\ TagBack(1) = MINUS

\* difflib emits a guide only inside a replaced pair "- old [?] + new [?]"
GuideAllowed ==
    \/ TagBack(0) = MINUS /\ consumed < Len(base_lines)
    \/ TagBack(0) = PLUS /\ (TagBack(1) = MINUS \/ (TagBack(1) = "?" /\ TagBack(2) = MINUS))

\* split('\n') gives every candidate at least one line
CandidateHasLine == \E p \in 1..Len(stream) : stream[p][1] \in {SPACE, MINUS}

renderVars == <<got, output, raised>>
scanConst == <<base_lines, files, colored, diff_info, pc, fileIdx>>

\* lines 245-252: a candidate is read and the scan's locals are initialised
BeginFile ==
    /\ pc = "file"
    /\ pc' = "scan"
    /\ local_diff' = EmptyDict
    /\ squigly_dict' = EmptyDict
    /\ last_added' = None
    /\ compensator' = 1
    /\ i' = 0
    /\ consumed' = 0
    /\ stream' = <<>>
    /\ UNCHANGED <<base_lines, files, colored, diff_info, fileIdx, renderVars, mergeVars, limitVars>>

\* one pass of the loop of line 253 on a line common to candidate and base
ScanCommon ==
    /\ pc = "scan"
    /\ ~AwaitsPlus
    /\ consumed < Len(base_lines)
    /\ stream' = Append(stream, CommonLine(base_lines[consumed + 1]))
    /\ consumed' = consumed + 1
    /\ i' = i + 1
    /\ UNCHANGED <<scanConst, compensator, local_diff, squigly_dict, last_added,
                   renderVars, mergeVars, limitVars>>

\* lines 257-259: a line of the base that the candidate lacks
ScanPlus ==
    /\ pc = "scan"
    /\ consumed < Len(base_lines)
    /\ LET line == PlusLine(base_lines[consumed + 1])
       IN /\ local_diff' = DictSet(local_diff, i + compensator,
                                   Append(DictGet(local_diff, i + compensator, <<>>),
                                          <<line, filename>>))
          /\ last_added' = line
          /\ stream' = Append(stream, line)
    /\ consumed' = consumed + 1
    /\ i' = i + 1
    /\ UNCHANGED <<scanConst, compensator, squigly_dict, renderVars, mergeVars, limitVars>>

\* lines 260-263: a line of the candidate that the base lacks
ScanMinus ==
    /\ pc = "scan"
    /\ RoomForExtra
    /\ ~AwaitsPlus
    /\ \E t \in Texts :
         LET line == MinusLine(t)
         IN /\ local_diff' = DictSet(local_diff, i + compensator,
                                     Append(DictGet(local_diff, i + compensator, <<>>),
                                            <<line, filename>>))
            /\ last_added' = line
            /\ stream' = Append(stream, line)
    /\ compensator' = compensator - 1
    /\ i' = i + 1
    /\ UNCHANGED <<scanConst, consumed, squigly_dict, renderVars, mergeVars, limitVars>>

\* lines 254-256: a guide line, which difflib puts right after a changed line
ScanGuide ==
    /\ pc = "scan"
    /\ RoomForExtra
    /\ GuideAllowed
    /\ \E tags \in GuideTags :
         LET line == GuideLine(tags)
         IN /\ squigly_dict' = DictSet(squigly_dict, last_added, line)
            /\ stream' = Append(stream, line)
    /\ compensator' = compensator - 1
    /\ i' = i + 1
    /\ UNCHANGED <<scanConst, consumed, local_diff, last_added, renderVars, mergeVars, limitVars>>

\* lines 265-268: the stream has ended and the candidate's changes are registered
StoreDiff ==
    /\ pc = "scan"
    /\ consumed = Len(base_lines)
    /\ ~AwaitsPlus
    /\ CandidateHasLine
    /\ diff_info' = StoreAll(diff_info, DOMAIN local_diff)
    /\ IF fileIdx < Len(files)
       THEN fileIdx' = fileIdx + 1 /\ pc' = "file"
       ELSE fileIdx' = fileIdx /\ pc' = "str"
    /\ UNCHANGED <<base_lines, files, colored, i, compensator, local_diff, squigly_dict,
                   last_added, consumed, stream, renderVars, mergeVars, limitVars>>

----------------------------------------------------------------------------
(* MultiDiff.color_line and MultiDiff.colorize *)

color_line(line, color) == IF colored THEN color \o line \o END_COLOR ELSE line

\* color_map.get(s, '')
ColorOf(line, s) ==
    CASE s = HAT -> IF StartsWith(line, PLUS) THEN GREEN_BACK ELSE RED_BACK
      [] s = MINUS -> RED_BACK
      [] s = PLUS -> GREEN_BACK
      [] OTHER -> Empty

RECURSIVE ColorizeFrom(_, _, _, _, _, _)
\* "for i, s in enumerate(squigly)" from 0-based index k on, then the closing
\* insert; chars is a list of strings, comp is the loop's compensator
ColorizeFrom(line, squigly, chars, flag, comp, k) ==
    IF k >= Len(squigly) THEN Insert(chars, Len(squigly) + comp, END_COLOR)
    ELSE LET s == squigly[k + 1] IN
         IF s # flag
         THEN LET chars1 == Insert(chars, k + comp, END_COLOR) IN
              IF s \in {HAT, MINUS, PLUS}
              THEN ColorizeFrom(line, squigly, Insert(chars1, k + comp + 1, ColorOf(line, s)),
                                s, comp + 2, k + 1)
              ELSE ColorizeFrom(line, squigly, chars1, s, comp + 1, k + 1)
         ELSE ColorizeFrom(line, squigly, chars, flag, comp, k + 1)

colorize(line, squigly) ==
    IF ~colored THEN line
    ELSE LET chars == [k \in 1..Len(line) |-> <<line[k]>>] IN
         IF squigly # Empty
         THEN Join(ColorizeFrom(line, squigly, chars, " ", 0, 0), Empty)
         ELSE Join(Append(Insert(chars, 0, ColorOf(line, line[1])), END_COLOR), Empty)

----------------------------------------------------------------------------
(* MultiDiff.get_line *)

max_groups == 2

RECURSIVE Perms(_)
\* the orders in which Python may iterate over the set S
Perms(S) == IF S = {} THEN {<<>>} ELSE UNION {{<<x>> \o q : q \in Perms(S \ {x})} : x \in S}

\* list(S), iterated in the order "ord" gives to its elements
SetOrder(S, ord) == SelectSeq(ord, LAMBDA x : x \in S)

\* diff_dict[key] if key in diff_dict, else nothing to loop over
KeyTuples(line_no, key) == DictGet(DictGet(diff_info, line_no, EmptyDict), key, <<>>)

\* the set "lines" after the loop of line 156
LinesOf(recs) == {recs[k][1] : k \in 1..Len(recs)}

\* changes_dict[diff_line] after the loop of line 156
ChangesOf(recs, diff_line) == {recs[k][2] : k \in {j \in 1..Len(recs) : recs[j][1] = diff_line}}

RECURSIVE SquiglyFrom(_, _, _)
\* squigly_dict of get_line after the loop of line 156, from 1-based index k on
SquiglyFrom(recs, sd, k) ==
    IF k > Len(recs) THEN sd
    ELSE LET diff_line == recs[k][1]
             squigly_line == recs[k][3]
         IN IF squigly_line # Empty
            THEN SquiglyFrom(recs,
                             DictSet(sd, diff_line,
                                     merge_squigly(squigly_line,
                                                   DictGet(sd, diff_line, squigly_line))),
                             k + 1)
            ELSE SquiglyFrom(recs, sd, k + 1)

RECURSIVE SortedFrom(_, _, _)
\* sorted(lines, key=lambda line: len(changes_dict[line])): stable, ascending,
\* built from count c on
SortedFrom(seq, recs, c) ==
    IF c > Len(recs) THEN <<>>
    ELSE SelectSeq(seq, LAMBDA l : Cardinality(ChangesOf(recs, l)) = c)
         \o SortedFrom(seq, recs, c + 1)

\* the wrongly ordered cut: the least shared groups come first
SelectedLeastFirst(line_no, key, lineOrd) ==
    LET recs == KeyTuples(line_no, key)
        sorted == SortedFrom(SetOrder(LinesOf(recs), lineOrd), recs, 0)
    IN SubSeq(sorted, 1, Min(max_groups, Len(sorted)))

\* lines 163-168: "lines" as the loop of line 170 sees it
Selected(line_no, key, lineOrd) ==
    LET recs == KeyTuples(line_no, key)
        sorted == SortedFrom(SetOrder(LinesOf(recs), lineOrd), recs, 0)
    IN SubSeq(Reverse(sorted), 1, Min(max_groups, Len(sorted)))

RECURSIVE IntLog10(_)
\* int(math.log10(n)), n >= 1
IntLog10(n) == IF n < 10 THEN 0 ELSE 1 + IntLog10(n \div 10)

\* the names are appended whatever the count
NamesAlways(nfiles, num_files) == TRUE

\* line 179: whether the candidates' names are appended
NamesShown(nfiles, num_files) == nfiles # num_files

\* lines 171-186 for one diff_line: the text lines it adds to "output"
GroupEntries(line_no, key, diff_line, nameOrd) ==
    LET recs == KeyTuples(line_no, key)
        squigly_line == DictGet(SquiglyFrom(recs, EmptyDict, 1), diff_line, Empty)
        names == ChangesOf(recs, diff_line)
        num_files == Len(files)
        count == <<"(">> \o IntToStr(Cardinality(names)) \o <<"/">> \o IntToStr(num_files) \o <<")">>
        line == <<IntToStr(line_no), colorize(diff_line, squigly_line), count>>
                \o (IF NamesShown(Cardinality(names), num_files)
                    THEN <<Join(SetOrder(names, nameOrd), <<",", " ">>)>> ELSE <<>>)
        group == [kind |-> "group", key |-> key, diff_line |-> diff_line,
                  str |-> Join(line, <<" ">>)]
    IN IF ~colored /\ squigly_line # Empty
       THEN <<group, [kind |-> "mask", key |-> key, diff_line |-> diff_line,
                      str |-> Repeat(" ", 2 + IntLog10(line_no)) \o squigly_line]>>
       ELSE <<group>>

RECURSIVE KeyEntries(_, _, _, _, _)
\* the loop of line 170, from 1-based index k on
KeyEntries(line_no, key, lines, nameOrd, k) ==
    IF k > Len(lines) THEN <<>>
    ELSE GroupEntries(line_no, key, lines[k], nameOrd)
         \o KeyEntries(line_no, key, lines, nameOrd, k + 1)

SepEntry(str) == [kind |-> "sep", key |-> " ", diff_line |-> Empty, str |-> str]

\* line 189 with the look-ahead left out
SeparatorAlways(line_no) == line_no \in DOMAIN diff_info

\* line 189: "print seperator only if needed"
SeparatorNeeded(line_no) ==
    /\ DictGet(diff_info, line_no, EmptyDict) # EmptyDict
    /\ DictGet(diff_info, line_no + 1, EmptyDict) = EmptyDict

\* math.log10(line_no) raises ValueError for a line_no that is not positive
GetLineRaises(line_no, lineOrd) ==
    /\ ~colored
    /\ line_no <= 0
    /\ \E key \in {MINUS, PLUS} :
         \E k \in 1..Len(Selected(line_no, key, lineOrd)) :
            DictGet(SquiglyFrom(KeyTuples(line_no, key), EmptyDict, 1),
                    Selected(line_no, key, lineOrd)[k], Empty) # Empty

\* the list get_line returns when it does not raise
get_line(line_no, lineOrd, nameOrd) ==
    KeyEntries(line_no, MINUS, Selected(line_no, MINUS, lineOrd), nameOrd, 1)
    \o KeyEntries(line_no, PLUS, Selected(line_no, PLUS, lineOrd), nameOrd, 1)
    \o (IF SeparatorNeeded(line_no)
        THEN <<SepEntry(<<" ">>), SepEntry(Repeat("-", SEP_WIDTH)), SepEntry(<<" ">>)>>
        ELSE <<>>)

----------------------------------------------------------------------------
(* MultiDiff.__str__ *)

\* every diff_line registered under "key", at any line number
AllLines(key) == UNION {LinesOf(KeyTuples(n, key)) : n \in DOMAIN diff_info}

\* every candidate name registered
AllMetas ==
    UNION {{KeyTuples(n, key)[k][2] : k \in 1..Len(KeyTuples(n, key))} :
           n \in DOMAIN diff_info, key \in {MINUS, PLUS}}

Comparing == <<"C", "o", "m", "p", "a", "r", "i", "n", "g", " ">>
With == <<" ", "w", "i", "t", "h", " ">>
NoDiff == <<"(", "n", "o", " ", "d", "i", "f", "f", ")">>

RECURSIVE Basenames(_, _)
\* map(os.path.basename, self.files), from 1-based index k on
Basenames(paths, k) ==
    IF k > Len(paths) THEN <<>> ELSE <<Basename(paths[k])>> \o Basenames(paths, k + 1)

\* lines 211-216: the first two elements of "output"
Header ==
    << Comparing \o color_line(Basename(BasePath), PURPLE) \o With
         \o Join(Basenames(files, 1), <<",", " ">>),
       Repeat("=", SEP_WIDTH) >>

\* filter(None, self.get_line(i)): the strings that are not empty
Filtered(entries) == SelectSeq(entries, LAMBDA e : e.str # Empty)

\* line 222: the element appended to "output" for one base index
Block(entries, term_width) ==
    LET lines == Filtered(entries)
    IN Join([k \in 1..Len(lines) |-> limit(colored, lines[k].str, term_width)], <<"\n">>)

RECURSIVE Blocks(_, _, _)
\* the loop of line 219 from base index n on, over the values of get_line
Blocks(lineInfo, term_width, n) ==
    IF n >= Len(base_lines) THEN <<>>
    ELSE (IF Filtered(lineInfo[n]) # <<>> THEN <<Block(lineInfo[n], term_width)>> ELSE <<>>)
         \o Blocks(lineInfo, term_width, n + 1)

\* the report: '\n'.join(output)
Report == Join(output, <<"\n">>)

\* __str__, with the terminal width and the iteration orders of the sets
Str ==
    /\ pc \in {"str", "index"}
    /\ \E term_width \in TermWidths, minusOrd \in Perms(AllLines(MINUS)),
          plusOrd \in Perms(AllLines(PLUS)), nameOrd \in Perms(AllMetas) :
         LET lineOrd == minusOrd \o plusOrd
             lineInfo == [n \in 0..(Len(base_lines) - 1) |-> get_line(n, lineOrd, nameOrd)]
             blocks == Blocks(lineInfo, term_width, 0)
         IN IF \E n \in 0..(Len(base_lines) - 1) : GetLineRaises(n, lineOrd)
            THEN /\ raised' = "ValueError"
                 /\ pc' = "failed"
                 /\ UNCHANGED <<got, output>>
            ELSE /\ got' = lineInfo
                 /\ output' = Header \o blocks
                                \o (IF blocks = <<>> THEN <<NoDiff>> ELSE <<>>)
                                \o <<Repeat("=", SEP_WIDTH)>>
                 /\ pc' = "done"
                 /\ UNCHANGED raised
    /\ UNCHANGED <<base_lines, files, colored, diff_info, fileIdx, i, compensator, local_diff,
                   squigly_dict, last_added, consumed, stream, mergeVars, limitVars>>

----------------------------------------------------------------------------
(* multidiff(base, files, colored) *)

\* the line texts of the base document
BaseTexts == {<<"b">>}
\* the documents the base may be: 1 to MaxBase lines ('' splits into one line)
BaseDocs == UNION {[1..n -> BaseTexts] : n \in 1..MaxBase}

\* the values of the variables that a run does not use
MergeIdle == sq1 = Empty /\ sq2 = Empty /\ sq3 = Empty /\ merged = EmptyDict
LimitIdle == text = Empty /\ length = 0 /\ limited = Empty
ScanIdle ==
    /\ fileIdx = 1 /\ i = 0 /\ compensator = 1 /\ local_diff = EmptyDict
    /\ squigly_dict = EmptyDict /\ last_added = None /\ consumed = 0 /\ stream = <<>>
RenderIdle == got = EmptyDict /\ output = <<>> /\ raised = "none"

\* lines 240-241: the MultiDiff object as its constructor leaves it
Init ==
    /\ base_lines \in BaseDocs
    /\ files \in {SubSeq(FilePaths, 1, n) : n \in 0..Len(FilePaths)}
    /\ colored \in BOOLEAN
    /\ diff_info = EmptyDict
    /\ pc = IF files = <<>> THEN "str" ELSE "file"
    /\ ScanIdle /\ RenderIdle /\ MergeIdle /\ LimitIdle

Next ==
    \/ BeginFile
    \/ ScanCommon
    \/ ScanPlus
    \/ ScanMinus
    \/ ScanGuide
    \/ StoreDiff
    \/ Str

Spec == Init /\ [][Next]_vars

----------------------------------------------------------------------------
(* MultiDiff used directly: parse_line called by hand, then __str__ *)

\* the document the index is built for
IndexBase == << <<"x">>, <<"y">>, <<"x">> >>
\* the (diff_line, meta, squigly_line) arguments parse_line is called with
IndexCalls ==
    { << <<"-", " ", "x">>, <<"A">>, Empty >>,
      << <<"-", " ", "x", " ">>, <<"B">>, <<"?", " ", "^">> >>,
      << <<"-", " ", "y">>, <<"A">>, <<"?", " ", "-">> >>,
      << <<"-", " ", "z">>, <<"B">>, Empty >>,
      << <<"+", " ", "x">>, <<"A">>, Empty >>,
      << <<" ", " ", "x">>, <<"A">>, Empty >> }
\* most calls of parse_line in one run
MaxRecords == 3

\* the number of Change Records in the index
NumRecords ==
    LET keys == {<<n, key>> \in (DOMAIN diff_info) \X {MINUS, PLUS} : key \in DOMAIN diff_info[n]}
        RECURSIVE Sum(_)
        Sum(S) == IF S = {} THEN 0
                  ELSE LET p == CHOOSE q \in S : TRUE
                       IN Len(diff_info[p[1]][p[2]]) + Sum(S \ {p})
    IN Sum(keys)

\* parse_line(line_no, diff_line, meta, squigly_line); _log.error is EasyBuild's
\* logger, which raises, so a line of a bad kind is not registered
ParseLine ==
    /\ pc = "index"
    /\ NumRecords < MaxRecords
    /\ \E line_no \in 0..Len(base_lines), call \in IndexCalls :
         IF ValidKey(call[1])
         THEN /\ diff_info' = Register(diff_info, line_no, call[1], call[2], call[3])
              /\ UNCHANGED <<pc, raised>>
         ELSE /\ raised' = "ProtocolViolation"
              /\ pc' = "failed"
              /\ UNCHANGED diff_info
    /\ UNCHANGED <<base_lines, files, colored, fileIdx, i, compensator, local_diff, squigly_dict,
                   last_added, consumed, stream, got, output, mergeVars, limitVars>>

InitIndex ==
    /\ base_lines = IndexBase
    /\ files = FilePaths
    /\ colored \in BOOLEAN
    /\ diff_info = EmptyDict
    /\ pc = "index"
    /\ ScanIdle /\ RenderIdle /\ MergeIdle /\ LimitIdle

NextIndex ==
    \/ ParseLine
    \/ Str

SpecIndex == InitIndex /\ [][NextIndex]_vars

----------------------------------------------------------------------------
(* merge_squigly on its own *)

MaskChars == {SPACE, HAT, PLUS, MINUS}
Masks == UNION {[1..n -> MaskChars] : n \in 0..MaxMaskLen}

MdIdle ==
    /\ base_lines = IndexBase /\ files = FilePaths /\ diff_info = EmptyDict
    /\ ScanIdle /\ RenderIdle

Merge ==
    /\ pc = "merge"
    /\ merged' = [ab |-> merge_squigly(sq1, sq2),
                  ba |-> merge_squigly(sq2, sq1),
                  left |-> merge_squigly(merge_squigly(sq1, sq2), sq3),
                  right |-> merge_squigly(sq1, merge_squigly(sq2, sq3))]
    /\ pc' = "merged"
    /\ UNCHANGED <<base_lines, files, colored, diff_info, fileIdx, i, compensator, local_diff,
                   squigly_dict, last_added, consumed, stream, got, output, raised,
                   sq1, sq2, sq3, limitVars>>

InitMerge ==
    /\ sq1 \in Masks /\ sq2 \in Masks /\ sq3 \in Masks
    /\ merged = EmptyDict
    /\ pc = "merge"
    /\ colored = FALSE
    /\ MdIdle /\ LimitIdle

SpecMerge == InitMerge /\ [][Merge]_vars

----------------------------------------------------------------------------
(* limit on its own *)

\* the characters of the lines handed to limit
LineChars == {"a", "ESC"}
Lines == UNION {[1..n -> LineChars] : n \in 0..MaxTextLen}

Limit ==
    /\ pc = "limit"
    /\ limited' = limit(colored, text, length)
    /\ pc' = "limited"
    /\ UNCHANGED <<base_lines, files, colored, diff_info, fileIdx, i, compensator, local_diff,
                   squigly_dict, last_added, consumed, stream, got, output, raised,
                   mergeVars, text, length>>

InitLimit ==
    /\ text \in Lines
    \* no line of a width below the ellipsis' own length can carry the ellipsis
    /\ length \in Len(END_LONG_LINE)..MaxWidth
    /\ limited = Empty
    /\ pc = "limit"
    /\ colored \in BOOLEAN
    /\ MdIdle /\ MergeIdle

SpecLimit == InitLimit /\ [][Limit]_vars

----------------------------------------------------------------------------
(* Properties *)

\* s.endswith(t)
EndsWith(s, t) == Len(s) >= Len(t) /\ SubSeq(s, Len(s) - Len(t) + 1, Len(s)) = t

\* the base indexes __str__ walks
BaseRange == 0..(Len(base_lines) - 1)

\* the group lines get_line returned for base index n
GroupsAt(n) == SelectSeq(got[n], LAMBDA e : e.kind = "group")

\* the candidates whose records at (n, key) carry the text diff_line
Contributors(n, key, diff_line) ==
    LET recs == KeyTuples(n, key)
    IN {recs[k][2] : k \in {j \in 1..Len(recs) : recs[j][1] = diff_line}}

\* "(contributing/total)"
Annotation(contributing, total) ==
    <<"(">> \o IntToStr(contributing) \o <<"/">> \o IntToStr(total) \o <<")">>

\* C1: once multidiff() has rendered the report, every line number that holds
\* Change Records in diff_info has at least one group line in the report.
C1_EveryChangedLineReported ==
    pc = "done" =>
        \A n \in DOMAIN diff_info : n \in DOMAIN got /\ GroupsAt(n) # <<>>

\* C2: every Change Record in diff_info has a line number n with
\* 0 <= n < len(base_lines), at every step of multidiff().
C2_LineNumbersWithinBase ==
    \A n \in DOMAIN diff_info : 0 <= n /\ n < Len(base_lines)

\* the candidate whose stream was registered last
StoredName == Basename(files[IF pc = "file" THEN fileIdx - 1 ELSE fileIdx])

\* (text, mask) of the changed line at index p of the stream: the mask is the
\* guide line that immediately follows it, or '' when none does
StreamPair(p) ==
    << Rstrip(stream[p]),
       IF p < Len(stream) /\ stream[p + 1][1] = "?" THEN Rstrip(stream[p + 1]) ELSE Empty >>

ChangedAt == {p \in 1..Len(stream) : stream[p][1] \in {MINUS, PLUS}}

\* the places (line_no, key, index) of the records the stored candidate has in diff_info
StoredPlaces ==
    UNION {{<<n, key, k>> : k \in {j \in 1..Len(KeyTuples(n, key)) :
                                       KeyTuples(n, key)[j][2] = StoredName}} :
           n \in DOMAIN diff_info, key \in {MINUS, PLUS}}

RecordPair(pl) ==
    LET rec == KeyTuples(pl[1], pl[2])[pl[3]] IN <<rec[1], rec[3]>>

\* C10: once a candidate's stream is registered, its records carry, changed line
\* for changed line, the mask of the guide that immediately follows that line in
\* the stream, and no mask where no guide follows.
C10_MaskIsFollowingGuide ==
    (pc \in {"file", "str", "done"} /\ files # <<>> /\ (pc = "file" => fileIdx > 1)) =>
        \A pair \in {StreamPair(p) : p \in ChangedAt} \cup {RecordPair(pl) : pl \in StoredPlaces} :
            Cardinality({p \in ChangedAt : StreamPair(p) = pair})
                = Cardinality({pl \in StoredPlaces : RecordPair(pl) = pair})

\* C3: every group line get_line renders counts 1 <= contributing <= total
\* candidates, ends with "(contributing/total)" when all candidates contribute and
\* with that annotation followed by the contributing names otherwise.
C3_RatioAndNames ==
    pc = "done" =>
        \A n \in DOMAIN got : \A k \in 1..Len(GroupsAt(n)) :
            LET e == GroupsAt(n)[k]
                who == Contributors(n, e.key, e.diff_line)
                contributing == Cardinality(who)
                total == Len(files)
                annotation == Annotation(contributing, total)
            IN /\ 1 <= contributing /\ contributing <= total
               /\ IF contributing < total
                  THEN \E ord \in Perms(who) :
                          EndsWith(e.str, annotation \o <<" ">> \o Join(ord, <<",", " ">>))
                  ELSE EndsWith(e.str, annotation)

\* C3's case: a report with a group all candidates share and a group only some do
C3_Witness ==
    /\ pc = "done"
    /\ \E n \in DOMAIN got : \E k \in 1..Len(GroupsAt(n)) :
          Cardinality(Contributors(n, GroupsAt(n)[k].key, GroupsAt(n)[k].diff_line)) = Len(files)
    /\ \E n \in DOMAIN got : \E k \in 1..Len(GroupsAt(n)) :
          Cardinality(Contributors(n, GroupsAt(n)[k].key, GroupsAt(n)[k].diff_line)) < Len(files)

\* the texts of the group lines rendered for (n, key), in the order rendered
RenderedTexts(n, key) ==
    LET groups == SelectSeq(GroupsAt(n), LAMBDA e : e.key = key)
    IN [k \in 1..Len(groups) |-> groups[k].diff_line]

Rule == Repeat("-", SEP_WIDTH)

\* the block of base index n ends with the separator rule
SeparatorAfter(n) ==
    /\ Len(got[n]) >= 3
    /\ got[n][Len(got[n]) - 2].str = <<" ">>
    /\ got[n][Len(got[n]) - 1].str = Rule
    /\ got[n][Len(got[n])].str = <<" ">>

\* base index n produced output
Produced(n) == n \in DOMAIN got /\ got[n] # <<>>

\* C5 as stated: a separator rule follows base index n exactly when n ends a run
\* of indexes with output and a later run exists.
C5_SeparatorOnlyBetweenRuns ==
    pc = "done" =>
        \A n \in BaseRange :
            SeparatorAfter(n) <=>
                (Produced(n) /\ ~Produced(n + 1) /\ \E m \in BaseRange : m > n /\ Produced(m))

\* C5 as amended: the lines get_line returns for base index n end with a
\* separator rule exactly when diff_info holds records at n and none at n + 1,
\* and the rule stands nowhere else among them.
C5_SeparatorEndsEachRun ==
    pc = "done" =>
        \A n \in BaseRange :
            /\ SeparatorAfter(n) <=> (n \in DOMAIN diff_info /\ (n + 1) \notin DOMAIN diff_info)
            /\ \A k \in 1..Len(got[n]) : got[n][k].str = Rule => k = Len(got[n]) - 1
            /\ (n \in DOMAIN diff_info /\ (n + 1) \in DOMAIN diff_info) =>
                  \A k \in 1..Len(got[n]) : got[n][k].kind # "sep"

\* C5's case: two runs of line numbers with a gap between them, and a separator
\* after each
C5_Witness ==
    /\ pc = "done"
    /\ DOMAIN diff_info = {0, 2}
    /\ SeparatorAfter(0) /\ SeparatorAfter(2) /\ ~Produced(1)

\* C6: a line longer than the width comes out of limit exactly width characters
\* long, ending with the ellipsis, with END_COLOR right before it when colored.
C6_LimitedToWidth ==
    (pc = "limited" /\ Len(text) > length) =>
        /\ Len(limited) = length
        /\ EndsWith(limited, IF colored THEN END_COLOR \o END_LONG_LINE ELSE END_LONG_LINE)

\* C7: with every record at a line number in [0, len(base_lines)), the only
\* exception a run ends with is the one parse_line raises for a bad kind.
C7_RenderNeverFails ==
    (\A n \in DOMAIN diff_info : 0 <= n /\ n < Len(base_lines)) =>
        raised \in {"none", "ProtocolViolation"}

\* C8: merge_squigly(a, b) = merge_squigly(b, a) for masks of equal length.
C8_MergeCommutes ==
    (pc = "merged" /\ Len(sq1) = Len(sq2)) => merged.ab = merged.ba

\* C9: merge_squigly(merge_squigly(M1, M2), M3) = merge_squigly(M1,
\* merge_squigly(M2, M3)) for masks of equal length.
C9_MergeAssociative ==
    (pc = "merged" /\ Len(sq1) = Len(sq2) /\ Len(sq2) = Len(sq3)) =>
        merged.left = merged.right

\* C9's case: three different masks of two or more characters whose merge is
\* none of them
C9_Witness ==
    /\ pc = "merged"
    /\ Len(sq1) = Len(sq2) /\ Len(sq2) = Len(sq3) /\ Len(sq1) >= 2
    /\ sq1 # sq2 /\ sq2 # sq3 /\ sq1 # sq3
    /\ merged.left \notin {sq1, sq2, sq3}
    /\ merged.left = merged.right

====
